---- MODULE Spec2Model ----
(***************************************************************************)
(* Model of heat.c: heat equation on a grid with a status mask             *)
(* (init_gaussian, init_julia_set, evolve_wave, compute_variance,          *)
(* renormalise_field, compute_gradient, draw_field_line, draw_wave,        *)
(* animation).                                                             *)
(*                                                                         *)
(* Field values are fixed-point numbers: the integer v stands for the      *)
(* double v / ONE.  Products with the integration step round down, as the  *)
(* stand-in for floating-point rounding.  The grid is NX x NY cells, with  *)
(* phi[i][j] of the source written phi[<<i, j>>].                         *)
(***************************************************************************)
EXTENDS Integers, Naturals, Sequences, FiniteSets, TLC

\* ------------------------------------------------------------------ bounds
NX == 4                 \* grid points on the x axis (1280 in the source)
NY == 3                 \* grid points on the y axis (720 in the source)
NThreads == 2           \* workers of the omp parallel for
MaxStatus == 3          \* largest status the classifier returns
NSTEPS == 3             \* number of frames of the movie (4500 in the source)
NVID == 2               \* integration steps between two frames (50 in the source)
N_FIELD_LINES == 2      \* number of field lines (200 in the source)
FIELD_LINE_FACTOR == 2  \* seed samples per field line (100 in the source)
NTrace == 3             \* nsteps of draw_field_line (100000 in the source)

\* --------------------------------------------------------- program constants
ONE == 40               \* fixed-point unit: the double 1.0
T_OUT == 80             \* #define T_OUT 2.0
VMAX == 400             \* #define VMAX 10.0
IntDen == 8             \* intstep is the fraction intstep / IntDen
BC_DIRICHLET == 0
BC_PERIODIC == 1
BC_ABSORBING == 2

Cells == (0..(NX-1)) \X (0..(NY-1))

VARIABLES
    FLOOR,      \* #define FLOOR: 1 limits the amplitude to VMAX
    B_COND,     \* #define B_COND: boundary condition policy
    SPEED,      \* #define SPEED: drift to the right
    intstep,    \* integration step (numerator over IntDen)
    T_IN,       \* #define T_IN: inside temperature
    SCALE,      \* #define SCALE: 1 renormalises the field before each frame
    julia,      \* julia_x, julia_y as the index of the point on the schedule
    frame,      \* the loop variable i of animation()
    sub,        \* the loop variable j of animation(): evolve_wave calls done
    log,        \* operations done since the current loop iteration began
    sinceClass, \* evolve_wave calls since the last classification of the grid
    shown,      \* what the last draw_wave call displayed
    variance,   \* var of animation(): result of compute_variance
    nablax,     \* draw_wave's buffer nablax[NX][NY]
    nablay,     \* draw_wave's buffer nablay[NX][NY]
    reads,      \* the index pairs of phi that compute_gradient has read
    integral,   \* draw_wave's static array integral[], NSeed + 1 entries
    si,         \* draw_wave's seed index i, lines 439-446
    lj,         \* draw_wave's loop variable j, line 442
    counter,    \* draw_wave's counter
    seeds,      \* the seed indices passed to draw_field_line so far
    tr,         \* the locals of the running draw_field_line call
    phi,        \* the field phi[NX][NY]
    xy_in,      \* the status grid xy_in[NX][NY]
    newphi,     \* evolve_wave's local buffer newphi[NX][NY]
    wk,         \* per worker: number of cells of its chunk already computed
    delta2,     \* per worker: its private, never assigned local delta2
    pc,         \* position in the running function
    mallocs,    \* per buffer: rows handed out by malloc since animation() began
    frees,      \* per buffer: rows passed to free since animation() began
    phi0,       \* phi at the entry of the running evolve_wave call
    xy0         \* xy_in at the entry of the running evolve_wave call

cfgvars == <<FLOOR, B_COND, SPEED, intstep, T_IN, SCALE>>

animvars == <<julia, frame, sub, shown, variance>>

gradvars == <<nablax, nablay, reads>>

linevars == <<integral, si, lj, counter, seeds>>

drawvars == <<gradvars, linevars, tr>>

heapvars == <<mallocs, frees>>

vars == <<cfgvars, animvars, drawvars, heapvars, log, sinceClass, phi, xy_in, newphi, wk, delta2, pc, phi0, xy0>>

\* ------------------------------------------------------------------- heap

\* the arrays of row pointers that malloc fills: lines 359-360, 469, 679-680
Buffers == {"phi", "xy_in", "newphi", "nablax", "nablay"}

NoRows == [b \in Buffers |-> 0]

\* for (i=0; i<NX; i++) b[i] = malloc(...) for every b of B
MallocRows(h, B) == [b \in Buffers |-> IF b \in B THEN h[b] + NX ELSE h[b]]

\* for (i=0; i<NX; i++) free(b[i]) for every b of B
FreeRows(h, B) == [b \in Buffers |-> IF b \in B THEN h[b] + NX ELSE h[b]]

\* ------------------------------------------------------------- evolve_wave

\* content of a malloc'ed cell that was never written
Uninit == 0 - 7777

\* values an uninitialised double (delta2) may hold
UninitVals == {0, ONE}

\* neighbour indices, lines 476-491
Iplus(i) ==
    IF B_COND = BC_PERIODIC THEN (i + 1) % NX
    ELSE IF i + 1 = NX THEN NX - 1 ELSE i + 1

Iminus(i) ==
    IF B_COND = BC_PERIODIC THEN (IF i - 1 < 0 THEN i - 1 + NX ELSE i - 1)
    ELSE IF i - 1 = 0 - 1 THEN 0 ELSE i - 1

Jplus(j) ==
    IF B_COND = BC_PERIODIC THEN (j + 1) % NY
    ELSE IF j + 1 = NY THEN NY - 1 ELSE j + 1

Jminus(j) ==
    IF B_COND = BC_PERIODIC THEN (IF j - 1 < 0 THEN j - 1 + NY ELSE j - 1)
    ELSE IF j - 1 = 0 - 1 THEN 0 ELSE j - 1

\* delta1, line 493
Delta1(f, i, j) ==
    f[<<Iplus(i), j>>] + f[<<Iminus(i), j>>] + f[<<i, Jplus(j)>>]
        + f[<<i, Jminus(j)>>] - 4 * f[<<i, j>>]

\* intstep1 of animation(), intstep1 = intstep * dx with dx = 2 cells units
Intstep1 == 2 * intstep

\* product of a fixed-point value with a step given over IntDen
Times(step, v) == (step * v) \div IntDen

\* the value stored in newphi[i][j], lines 495-529; d2 is what the
\* uninitialised local delta2 holds
NewValue(f, i, j, d2) ==
    LET x == f[<<i, j>>] IN
    IF B_COND # BC_ABSORBING
    THEN x + Times(intstep, Delta1(f, i, j) - SPEED * (f[<<Iplus(i), j>>] - x))
    ELSE IF (i > 0) /\ (i < NX - 1) /\ (j > 0) /\ (j < NY - 1)
         THEN x - Times(intstep, d2)
    ELSE IF i = NX - 1 THEN x - Times(Intstep1, x - f[<<i - 1, j>>])
    ELSE IF j = NY - 1 THEN x - Times(Intstep1, x - f[<<i, j - 1>>])
    ELSE IF i = 0 THEN x - Times(Intstep1, x - f[<<1, j>>])
    ELSE x - Times(Intstep1, x - f[<<i, 1>>])

\* the FLOOR block, lines 532-536: the field after the clamp of cell c
FloorWrite(f, c, nv) ==
    IF FLOOR = 1 /\ nv > VMAX THEN [f EXCEPT ![c] = VMAX]
    ELSE IF FLOOR = 1 /\ nv < 0 - VMAX THEN [f EXCEPT ![c] = 0 - VMAX]
    ELSE f

\* rows of the parallel for given to worker t (static schedule)
RowsOf(t) == {i \in 0..(NX-1) : (i * NThreads) \div NX = t}

FirstRow(t) == CHOOSE i \in RowsOf(t) : \A r \in RowsOf(t) : i <= r

ChunkLen(t) == Cardinality(RowsOf(t)) * NY

\* the k-th cell worker t visits: rows ascending, j ascending
CellOf(t, k) == <<FirstRow(t) + (k \div NY), k % NY>>

\* line 469: newphi is allocated, nothing written yet
EvolveEnter ==
    /\ pc = "evolve"
    /\ newphi' = [c \in Cells |-> Uninit]
    /\ wk' = [t \in 0..(NThreads-1) |-> 0]
    /\ phi0' = phi
    /\ xy0' = xy_in
    /\ pc' = "compute"
    /\ IF B_COND = BC_ABSORBING
       THEN delta2' \in [0..(NThreads-1) -> UninitVals]
       ELSE delta2' = [t \in 0..(NThreads-1) |-> 0]
    /\ mallocs' = MallocRows(mallocs, {"newphi"})
    /\ UNCHANGED <<frees, cfgvars, drawvars, animvars, log, sinceClass, phi, xy_in>>

\* one iteration of the body of the parallel loop, lines 474-537; delta2 is
\* private to the worker and never assigned, so it keeps what it held when
\* the parallel region began (not modelled when no branch reads it)
Worker(t) ==
    /\ pc = "compute"
    /\ wk[t] < ChunkLen(t)
    /\ LET c == CellOf(t, wk[t]) IN
         IF xy_in[c] = 1
         THEN LET nv == NewValue(phi, c[1], c[2], delta2[t]) IN
                /\ newphi' = [newphi EXCEPT ![c] = nv]
                /\ phi' = FloorWrite(phi, c, nv)
         ELSE UNCHANGED <<newphi, phi>>
    /\ wk' = [wk EXCEPT ![t] = wk[t] + 1]
    /\ UNCHANGED <<heapvars, delta2, cfgvars, drawvars, animvars, log, sinceClass, xy_in, pc, phi0, xy0>>

\* a commit loop without the status test
CommitValueAll(f, nf, st, c) == nf[c]

\* the value cell c holds after the commit loop, line 543
CommitValue(f, nf, st, c) == IF st[c] = 1 THEN nf[c] ELSE f[c]

\* end of the parallel region, then lines 541-550
Commit ==
    /\ pc = "compute"
    /\ \A t \in 0..(NThreads-1) : wk[t] = ChunkLen(t)
    /\ phi' = [c \in Cells |-> CommitValue(phi, newphi, xy_in, c)]
    /\ pc' = "evolved"
    /\ log' = Append(log, "evolve")
    /\ sinceClass' = sinceClass + 1
    /\ frees' = FreeRows(frees, {"newphi"})
    /\ UNCHANGED <<mallocs, delta2, cfgvars, drawvars, animvars, xy_in, newphi, wk, phi0, xy0>>

\* ------------------------------------------------- grid and classification

\* ij_to_xy of sub_wave.c: the centre of cell (i, j); a cell is 2 units wide
\* and the window is [-NX, NX] x [-NY, NY]
ij_to_xy(i, j) == <<2 * i - (NX - 1), 2 * j - (NY - 1)>>

\* xy_in_billiard of sub_wave.c for the Julia domain with parameter jul:
\* 0 outside, 1 fluid, >= 2 graded conductor shells
xy_in_billiard(x, y, jul) ==
    LET r2 == (x - jul) * (x - jul) + y * y IN
    IF r2 <= 0 THEN MaxStatus
    ELSE IF r2 <= 1 THEN 2
    ELSE IF r2 >= 13 THEN 0
    ELSE 1

\* julia_x = julia_y = 0.0 at program start (line 185): not on the schedule
NoJulia == 0 - 1

\* nothing displayed yet
NoFrame == [frame |-> 0 - 1, julia |-> NoJulia, sinceClass |-> 0]

\* the status grid of the Julia parameter jul
Classify(jul) ==
    [c \in Cells |-> xy_in_billiard(ij_to_xy(c[1], c[2])[1], ij_to_xy(c[1], c[2])[2], jul)]

\* ------------------------------------------------- draw_wave: the seeds

\* N_FIELD_LINES*FIELD_LINE_FACTOR, the number of samples of the ellipse
NSeed == N_FIELD_LINES * FIELD_LINE_FACTOR

\* no draw_field_line call is running
NoTrace == [x0 |-> 0, y0 |-> 0, x1 |-> 0, y1 |-> 0, cont |-> 0, i |-> 0, verts |-> 0]

\* the state of draw_wave's locals outside a call
DrawIdle ==
    /\ nablax = [c \in Cells |-> Uninit]
    /\ nablay = [c \in Cells |-> Uninit]
    /\ reads = {}
    /\ integral = [s \in 0..NSeed |-> 0]
    /\ si = 0
    /\ lj = 0
    /\ counter = 0
    /\ seeds = <<>>
    /\ tr = NoTrace

\* ---------------------------------------------- init_gaussian, init_julia_set

\* T_IN * pow(0.75, n) in fixed point
RECURSIVE Pow75(_, _)
Pow75(v, n) == IF n = 0 THEN v ELSE Pow75((3 * v) \div 4, n - 1)

\* mean + module/scalex for the call init_gaussian(-1.0, 0.0, 0.1, 0.0, 0.01, ...)
\* of line 695: amplitude 0.0 gives module = 1.0e-15, so the value is 0.1
GaussValue == ONE \div 10

\* the value init_gaussian stores in a cell of status in, lines 214-226
InitGaussianValue(in) ==
    IF in = 1 THEN GaussValue
    ELSE IF in >= 2 THEN Pow75(T_IN, in - 2)
    ELSE T_OUT

\* the value a cell of status in holds after init_julia_set, line 247
InitJuliaValue(in, old) == IF in >= 2 THEN T_IN ELSE old

\* the point of the schedule set_Julia_parameters(time) selects, lines 630-637:
\* the angle time * DPI / NSTEPS, so time = NSTEPS is the point of time = 0
JuliaOf(time) == time % NSTEPS

\* ------------------------------------- compute_variance, renormalise_field

\* the cells the loops of lines 565-566 and 588-589 visit
VarCells == {c \in Cells : c[1] >= 1 /\ c[2] >= 1}

RECURSIVE SumSq(_, _)
SumSq(f, S) ==
    IF S = {} THEN 0
    ELSE LET c == CHOOSE d \in S : TRUE IN f[c] * f[c] + SumSq(f, S \ {c})

\* compute_variance, lines 558-576 (in units of ONE * ONE)
compute_variance(f, st) ==
    LET S == {c \in VarCells : st[c] # 0}
        n == IF Cardinality(S) = 0 THEN 1 ELSE Cardinality(S)
    IN  SumSq(f, S) \div n

RECURSIVE SqrtIn(_, _, _)
SqrtIn(n, lo, hi) ==
    IF lo >= hi THEN lo
    ELSE LET mid == (lo + hi + 1) \div 2 IN
         IF mid * mid <= n THEN SqrtIn(n, mid, hi) ELSE SqrtIn(n, lo, mid - 1)

\* sqrt(), rounded down
Sqrt(n) == IF n <= 0 THEN 0 ELSE SqrtIn(n, 0, IF n > 46340 THEN 46340 ELSE n)

\* the result of a division by zero
NaN == 0 - 9999

\* phi[i][j]/stdv, line 593
DivStdv(v, stdv) == IF stdv = 0 THEN NaN ELSE (v * ONE) \div stdv

\* the value of cell c after renormalise_field, lines 586-595
RenormValue(f, st, var, c) ==
    IF c \in VarCells /\ st[c] # 0 THEN DivStdv(f[c], Sqrt(var)) ELSE f[c]

\* --------------------------------------------------------------- animation

\* intstep = DT/(dx*dx*VISCOSITY), line 684
IntstepAnim == 1

\* a loop body that reclassifies and integrates before it draws
AfterJuliaFirst(p) ==
    CASE p = "start" -> "gauss"
      [] p = "gauss" -> "prescale"
      [] p = "prescale" -> "predraw"
      [] p = "predraw" -> "julia"
      [] p = "julia" -> "evolve"
      [] p = "evolved" -> "scale"
      [] p = "scale" -> "draw"
      [] p = "draw" -> "julia"
      [] OTHER -> "done"

\* the statement that follows statement p in animation(), lines 690-747
After(p) ==
    CASE p = "start" -> "gauss"
      [] p = "gauss" -> "prescale"
      [] p = "prescale" -> "predraw"
      [] p = "predraw" -> "scale"
      [] p = "scale" -> "draw"
      [] p = "draw" -> "evolve"
      [] p = "evolved" -> "julia"
      [] p = "julia" -> "scale"
      [] OTHER -> "done"

\* set_Julia_parameters(time, phi, xy_in) with init_julia_set, lines 230-249, 623-641
SetJulia(time) ==
    /\ julia' = JuliaOf(time)
    /\ xy_in' = Classify(julia')
    /\ phi' = [c \in Cells |-> InitJuliaValue(xy_in'[c], phi[c])]
    /\ sinceClass' = 0

\* line 690
SetJuliaFirst ==
    /\ pc = "start"
    /\ SetJulia(0)
    /\ pc' = After(pc)
    /\ UNCHANGED <<heapvars, delta2, cfgvars, drawvars, frame, sub, shown, variance, log, newphi, wk, phi0, xy0>>

\* line 695
InitGaussian ==
    /\ pc = "gauss"
    /\ xy_in' = Classify(julia)
    /\ phi' = [c \in Cells |-> InitGaussianValue(xy_in'[c])]
    /\ sinceClass' = 0
    /\ pc' = After(pc)
    /\ UNCHANGED <<heapvars, delta2, cfgvars, drawvars, animvars, log, newphi, wk, phi0, xy0>>

\* lines 698-703 and 726-733
Scale ==
    /\ pc \in {"prescale", "scale"}
    /\ IF SCALE = 1
       THEN /\ variance' = compute_variance(phi, xy_in)
            /\ phi' = [c \in Cells |-> RenormValue(phi, xy_in, variance', c)]
       ELSE UNCHANGED <<variance, phi>>
    /\ log' = IF pc = "scale" /\ SCALE = 1 THEN <<"normalise">> ELSE <<>>
    /\ pc' = After(pc)
    /\ UNCHANGED <<heapvars, delta2, cfgvars, drawvars, julia, frame, sub, shown, sinceClass, xy_in, newphi, wk, phi0, xy0>>

\* the calls of draw_wave, lines 711 and 735; the loop over j starts
Draw ==
    /\ pc \in {"predraw", "draw"}
    /\ shown' = [frame |-> frame, julia |-> julia, sinceClass |-> sinceClass]
    /\ log' = IF pc = "draw" THEN Append(log, "draw") ELSE log
    /\ sub' = 0
    /\ pc' = After(pc)
    /\ mallocs' = MallocRows(mallocs, {"nablax", "nablay"})
    /\ frees' = FreeRows(frees, {"nablax", "nablay"})
    /\ UNCHANGED <<delta2, cfgvars, drawvars, julia, frame, variance, sinceClass, phi, xy_in, newphi, wk, phi0, xy0>>

\* line 737: evolve_wave returned, next j
EvolveReturn ==
    /\ pc = "evolved"
    /\ sub' = sub + 1
    /\ pc' = IF sub + 1 < NVID THEN "evolve" ELSE After(pc)
    /\ UNCHANGED <<heapvars, delta2, cfgvars, drawvars, julia, frame, shown, variance, log, sinceClass, phi, xy_in, newphi, wk, phi0, xy0>>

\* line 747, then i++ and the test i <= NSTEPS of line 722
SetJuliaLoop ==
    /\ pc = "julia"
    /\ SetJulia(frame)
    /\ log' = Append(log, "julia")
    /\ frame' = frame + 1
    /\ pc' = IF frame + 1 <= NSTEPS THEN After(pc) ELSE "free"
    /\ UNCHANGED <<heapvars, delta2, cfgvars, drawvars, sub, shown, variance, newphi, wk, phi0, xy0>>

\* lines 770-773
Free ==
    /\ pc = "free"
    /\ pc' = "done"
    /\ frees' = FreeRows(frees, {"phi"})
    /\ UNCHANGED <<mallocs, delta2, cfgvars, drawvars, animvars, log, sinceClass, phi, xy_in, newphi, wk, phi0, xy0>>

\* animation() is entered: the rows of phi and xy_in are allocated, lines 677-685
Init ==
    /\ FLOOR \in {0, 1}
    /\ B_COND = BC_DIRICHLET
    /\ SPEED = 0
    /\ intstep = IntstepAnim
    /\ T_IN \in {0, 2 * ONE}
    /\ SCALE \in {0, 1}
    /\ julia = NoJulia
    /\ frame = 0
    /\ sub = 0
    /\ log = <<>>
    /\ sinceClass = 0
    /\ shown = NoFrame
    /\ variance = 0
    /\ DrawIdle
    /\ phi = [c \in Cells |-> Uninit]
    /\ xy_in = [c \in Cells |-> 0]
    /\ newphi = [c \in Cells |-> Uninit]
    /\ wk = [t \in 0..(NThreads-1) |-> 0]
    /\ delta2 = [t \in 0..(NThreads-1) |-> 0]
    /\ mallocs = MallocRows(NoRows, {"phi", "xy_in"})
    /\ frees = NoRows
    /\ pc = "start"
    /\ phi0 = phi
    /\ xy0 = xy_in

Next ==
    \/ SetJuliaFirst
    \/ InitGaussian
    \/ Scale
    \/ Draw
    \/ EvolveEnter
    \/ \E t \in 0..(NThreads-1) : Worker(t)
    \/ Commit
    \/ EvolveReturn
    \/ SetJuliaLoop
    \/ Free

Spec == Init /\ [][Next]_vars

\* ------------------------------------------- one call of evolve_wave, any input

\* amplitude of the test fields
Hot == 5 * VMAX

\* one cell per row i of the grid
DiagCells == {<<i, i % NY>> : i \in 0..(NX-1)}

\* fields that are zero except for one cell
SpikeFields == {[c \in Cells |-> IF c = h THEN v ELSE 0] : h \in DiagCells, v \in {Hot, 0 - Hot}}

\* the builds tried: <<FLOOR, B_COND, SPEED, intstep>>, intstep 1/4 or 1/2
StepConfigs ==
    {<<0, BC_DIRICHLET, 0, 2>>, <<1, BC_DIRICHLET, 0, 2>>, <<0, BC_DIRICHLET, 1, 4>>,
     <<1, BC_PERIODIC, 0, 4>>, <<0, BC_ABSORBING, 0, 2>>}

InitStep ==
    /\ \E b \in StepConfigs :
         /\ FLOOR = b[1]
         /\ B_COND = b[2]
         /\ SPEED = b[3]
         /\ intstep = b[4]
    /\ T_IN = 0
    /\ SCALE = 0
    /\ julia = NoJulia
    /\ frame = 0
    /\ sub = 0
    /\ log = <<>>
    /\ sinceClass = 0
    /\ shown = NoFrame
    /\ variance = 0
    /\ DrawIdle
    /\ xy_in \in {Classify(k) : k \in 0..(NSTEPS-1)}
    /\ phi \in SpikeFields
    /\ newphi = [c \in Cells |-> Uninit]
    /\ wk = [t \in 0..(NThreads-1) |-> 0]
    /\ delta2 = [t \in 0..(NThreads-1) |-> 0]
    /\ mallocs = MallocRows(NoRows, {"phi", "xy_in"})
    /\ frees = NoRows
    /\ pc = "evolve"
    /\ phi0 = phi
    /\ xy0 = xy_in

NextStep ==
    \/ EvolveEnter
    \/ \E t \in 0..(NThreads-1) : Worker(t)
    \/ Commit

SpecStep == InitStep /\ [][NextStep]_vars

\* ------------------------- compute_variance then renormalise_field, any input

\* fields that are 1.0 except for one cell
BumpFields == {[c \in Cells |-> IF c = h THEN v ELSE ONE] : h \in Cells, v \in {2 * ONE, 3 * ONE}}

InitVar ==
    /\ FLOOR = 0
    /\ B_COND = BC_DIRICHLET
    /\ SPEED = 0
    /\ intstep = IntstepAnim
    /\ T_IN = 0
    /\ SCALE = 1
    /\ julia = NoJulia
    /\ frame = 0
    /\ sub = 0
    /\ log = <<>>
    /\ sinceClass = 0
    /\ shown = NoFrame
    /\ variance = 0
    /\ DrawIdle
    /\ xy_in \in {Classify(k) : k \in 0..(NSTEPS-1)}
    /\ phi \in BumpFields
    /\ newphi = [c \in Cells |-> Uninit]
    /\ wk = [t \in 0..(NThreads-1) |-> 0]
    /\ delta2 = [t \in 0..(NThreads-1) |-> 0]
    /\ mallocs = MallocRows(NoRows, {"phi", "xy_in"})
    /\ frees = NoRows
    /\ pc = "variance"
    /\ phi0 = phi
    /\ xy0 = xy_in

\* var = compute_variance(phi, xy_in), line 728
ComputeVariance ==
    /\ pc = "variance"
    /\ variance' = compute_variance(phi, xy_in)
    /\ pc' = "renorm"
    /\ UNCHANGED <<heapvars, delta2, cfgvars, drawvars, julia, frame, sub, shown, log, sinceClass, phi, xy_in, newphi, wk, phi0, xy0>>

\* renormalise_field(phi, xy_in, var), line 731
Renormalise ==
    /\ pc = "renorm"
    /\ phi' = [c \in Cells |-> RenormValue(phi, xy_in, variance, c)]
    /\ pc' = "renormed"
    /\ UNCHANGED <<heapvars, delta2, cfgvars, drawvars, animvars, log, sinceClass, xy_in, newphi, wk, phi0, xy0>>

NextVar == ComputeVariance \/ Renormalise

SpecVar == InitVar /\ [][NextVar]_vars

\* -------------------------------------------------------- compute_gradient

\* dx = (XMAX-XMIN)/NX, line 264: the width of a cell
DX == 2

\* values a read past the end of a row of phi may return
OobVals == {0, ONE}

\* neighbour indices of compute_gradient, lines 269-272
GIplus(i) == IF i + 1 = NX THEN NX - 1 ELSE i + 1

GIminus(i) == IF i - 1 = 0 - 1 THEN 0 ELSE i - 1

GJplus(j) == IF j + 1 = NX THEN NY - 1 ELSE j + 1

GJminus(j) == IF j - 1 = 0 - 1 THEN 0 ELSE j - 1

\* phi[i][j] as compute_gradient reads it; oob[i] is what lies behind row i
PhiRead(f, i, j, oob) == IF <<i, j>> \in Cells THEN f[<<i, j>>] ELSE oob[i]

\* nablax[i][j], line 273
GradX(f, i, j) == (f[<<GIplus(i), j>>] - f[<<GIminus(i), j>>]) \div DX

\* nablay[i][j], line 274
GradY(f, i, j, oob) == (PhiRead(f, i, GJplus(j), oob) - PhiRead(f, i, GJminus(j), oob)) \div DX

\* the index pairs read by lines 273-274 over the whole grid
GradReads ==
    UNION {{<<GIplus(c[1]), c[2]>>, <<GIminus(c[1]), c[2]>>,
            <<c[1], GJplus(c[2])>>, <<c[1], GJminus(c[2])>>} : c \in Cells}

\* compute_gradient(phi, nablax, nablay), called at line 365
ComputeGradient ==
    /\ pc = "gradient"
    /\ \E oob \in [0..(NX-1) -> OobVals] :
         /\ nablax' = [c \in Cells |-> GradX(phi, c[1], c[2])]
         /\ nablay' = [c \in Cells |-> GradY(phi, c[1], c[2], oob)]
    /\ reads' = GradReads
    /\ pc' = "integral"
    /\ UNCHANGED <<heapvars, delta2, cfgvars, animvars, linevars, tr, log, sinceClass, phi, xy_in, newphi, wk, phi0, xy0>>

\* ---------------------------------------------- draw_wave: the field lines

\* semi-axes sqrt(3.58) and sqrt(1.18) of the reference ellipse, lines 374-385,
\* in the window [-NX, NX] x [-NY, NY]
ELL_A == NX - 1

ELL_B == NY - 1

\* m * cos(2 pi u / m) as a triangle wave, for 0 <= u < m
CosNum(u, m) == IF 2 * u <= m THEN m - 4 * u ELSE 4 * u - 3 * m

\* division rounding toward zero
TruncDiv(a, b) == IF a >= 0 THEN a \div b ELSE 0 - ((0 - a) \div b)

\* linex[s] and liney[s], lines 376-387
linex(s) == TruncDiv(ELL_A * CosNum(4 * s, 4 * NSeed), 4 * NSeed)

liney(s) == TruncDiv(ELL_B * CosNum((4 * s + 3 * NSeed) % (4 * NSeed), 4 * NSeed), 4 * NSeed)

\* module2 of sub_wave.c: the euclidean norm
module2(x, y) == Sqrt(x * x + y * y)

\* distance[s], lines 388-392
distance(s) ==
    module2(linex((s + 1) % NSeed) - linex(s), liney((s + 1) % NSeed) - liney(s))

\* xy_to_ij of sub_wave.c: the cell that holds the point (x, y)
xy_to_ij(x, y) == <<(x + NX) \div 2, (y + NY) \div 2>>

\* intens for sample s, lines 428-429
Intens(s) ==
    LET ij == xy_to_ij(linex(s), liney(s)) IN module2(nablax[ij], nablay[ij]) * distance(s)

\* integral[s], lines 430-431; the entry NSeed is never written
RECURSIVE Integral(_)
Integral(s) == IF s = 0 THEN Intens(0) ELSE Integral(s - 1) + Intens(s)

\* deltaintens, line 433
DeltaIntens == integral[NSeed - 1] \div N_FIELD_LINES

\* the while loop of line 444
RECURSIVE AdvanceSeed(_, _)
AdvanceSeed(i, j) ==
    IF (integral[i] <= j * DeltaIntens) /\ (i < NSeed) THEN AdvanceSeed(i + 1, j) ELSE i

\* a loop that draws one line less
MoreLinesShort(j) == j < N_FIELD_LINES

\* the test of the for loop, line 442
MoreLines(j) == j < N_FIELD_LINES + 1

\* lines 426-432
Integrate ==
    /\ pc = "integral"
    /\ integral' = [s \in 0..NSeed |-> IF s < NSeed THEN Integral(s) ELSE 0]
    /\ pc' = "first"
    /\ UNCHANGED <<heapvars, delta2, cfgvars, animvars, gradvars, si, lj, counter, seeds, tr, log, sinceClass, phi, xy_in, newphi, wk, phi0, xy0>>

\* lines 439-441: the line from the sample of angle zero
FirstLine ==
    /\ pc = "first"
    /\ si' = 0
    /\ seeds' = Append(seeds, 0)
    /\ lj' = 1
    /\ pc' = "lines"
    /\ UNCHANGED <<heapvars, delta2, cfgvars, animvars, gradvars, integral, counter, tr, log, sinceClass, phi, xy_in, newphi, wk, phi0, xy0>>

\* one iteration of the for loop, lines 442-448
NextLine ==
    /\ pc = "lines"
    /\ MoreLines(lj)
    /\ si' = AdvanceSeed(si, lj)
    /\ seeds' = Append(seeds, si')
    /\ counter' = counter + 1
    /\ lj' = lj + 1
    /\ UNCHANGED <<heapvars, delta2, cfgvars, animvars, gradvars, integral, tr, log, sinceClass, phi, xy_in, newphi, wk, pc, phi0, xy0>>

\* the loop ends; lines 449-457
DrawExit ==
    /\ pc = "lines"
    /\ ~MoreLines(lj)
    /\ pc' = "drawn"
    /\ frees' = FreeRows(frees, {"nablax", "nablay"})
    /\ UNCHANGED <<mallocs, delta2, cfgvars, animvars, drawvars, log, sinceClass, phi, xy_in, newphi, wk, phi0, xy0>>

\* fields with the same value in every cell
ConstFields == {[c \in Cells |-> v] : v \in {0, ONE, T_OUT}}

\* fields that rise along x, along y, and along both
RampFields ==
    {[c \in Cells |-> a * c[1] + b * c[2]] : a \in {0, ONE}, b \in {0, 3 * ONE}}

InitDraw ==
    /\ FLOOR = 0
    /\ B_COND = BC_DIRICHLET
    /\ SPEED = 0
    /\ intstep = IntstepAnim
    /\ T_IN = 0
    /\ SCALE = 0
    /\ julia = NoJulia
    /\ frame = 0
    /\ sub = 0
    /\ log = <<>>
    /\ sinceClass = 0
    /\ shown = NoFrame
    /\ variance = 0
    /\ DrawIdle
    /\ xy_in = Classify(0)
    /\ phi \in ConstFields \cup RampFields \cup SpikeFields
    /\ newphi = [c \in Cells |-> Uninit]
    /\ wk = [t \in 0..(NThreads-1) |-> 0]
    /\ delta2 = [t \in 0..(NThreads-1) |-> 0]
    /\ mallocs = MallocRows(NoRows, {"phi", "xy_in", "nablax", "nablay"})
    /\ frees = NoRows
    /\ pc = "gradient"
    /\ phi0 = phi
    /\ xy0 = xy_in

NextDraw ==
    \/ ComputeGradient
    \/ Integrate
    \/ FirstLine
    \/ NextLine
    \/ DrawExit

SpecDraw == InitDraw /\ [][NextDraw]_vars

\* -------------------------------------------------------- draw_field_line

\* the step length delta of the calls at lines 441 and 446: one cell
Delta == 2

\* the threshold 1.0e-14 of line 315, in the units of the squared gradient
MinNorm2 == 1

\* the floor 1.0e-9 of line 318, in the units of the squared gradient
FloorNorm2 == 4

\* lines 303-308: the cell of the point (x, y), clamped to the grid
ClampedCell(x, y) ==
    LET ij == xy_to_ij(x, y)
        i == IF ij[1] < 0 THEN 0 ELSE IF ij[1] > NX - 1 THEN NX - 1 ELSE ij[1]
        j == IF ij[2] < 0 THEN 0 ELSE IF ij[2] > NY - 1 THEN NY - 1 ELSE ij[2]
    IN  <<i, j>>

\* norm2 at cell c, lines 310-313
Norm2(c) == nablax[c] * nablax[c] + nablay[c] * nablay[c]

\* norm, lines 318-319
Norm(n2) == Sqrt(IF n2 < FloorNorm2 THEN FloorNorm2 ELSE n2)

\* the loop test of line 301
TraceGoes(cont, i) == (cont = 1) /\ (i < NTrace)

\* a tracer that does not stop in cells of status 0
ContAfterNoStatus(n2, st) == IF n2 > MinNorm2 THEN 1 ELSE 0

\* cont at the end of an iteration that began with cont = 1, lines 315-330
ContAfter(n2, st) == IF (n2 > MinNorm2) /\ (st # 0) THEN 1 ELSE 0

\* the entry of draw_field_line(x, y, ...), lines 286-300
TraceEntry(x, y) == [x0 |-> x, y0 |-> y, x1 |-> x, y1 |-> y, cont |-> 1, i |-> 0, verts |-> 1]

\* one iteration of the while loop, lines 301-341
TraceStep ==
    /\ pc = "trace"
    /\ TraceGoes(tr.cont, tr.i)
    /\ LET c == ClampedCell(tr.x1, tr.y1)
           n2 == Norm2(c)
           moves == n2 > MinNorm2
       IN  tr' = [tr EXCEPT
                    !.x1 = IF moves THEN tr.x1 + TruncDiv(Delta * nablax[c], Norm(n2)) ELSE tr.x1,
                    !.y1 = IF moves THEN tr.y1 + TruncDiv(Delta * nablay[c], Norm(n2)) ELSE tr.y1,
                    !.cont = ContAfter(n2, xy_in[c]),
                    !.verts = tr.verts + 1,
                    !.i = tr.i + 1]
    /\ UNCHANGED <<heapvars, delta2, cfgvars, animvars, gradvars, linevars, log, sinceClass, phi, xy_in, newphi, wk, pc, phi0, xy0>>

\* the loop ends, line 342
TraceExit ==
    /\ pc = "trace"
    /\ ~TraceGoes(tr.cont, tr.i)
    /\ pc' = "traced"
    /\ UNCHANGED <<heapvars, delta2, cfgvars, animvars, drawvars, log, sinceClass, phi, xy_in, newphi, wk, phi0, xy0>>

\* gradient fields with the same vector in every cell
UniformGradients ==
    {<<gx, gy>> : gx \in {0 - ONE, 0, 1, ONE}, gy \in {0 - ONE, 0, 1}}

InitTrace ==
    /\ FLOOR = 0
    /\ B_COND = BC_DIRICHLET
    /\ SPEED = 0
    /\ intstep = IntstepAnim
    /\ T_IN = 0
    /\ SCALE = 0
    /\ julia = NoJulia
    /\ frame = 0
    /\ sub = 0
    /\ log = <<>>
    /\ sinceClass = 0
    /\ shown = NoFrame
    /\ variance = 0
    /\ \/ \E g \in UniformGradients :
            /\ nablax = [c \in Cells |-> g[1]]
            /\ nablay = [c \in Cells |-> g[2]]
       \/ \E f \in SpikeFields :
            /\ nablax = [c \in Cells |-> GradX(f, c[1], c[2])]
            /\ nablay = [c \in Cells |-> GradY(f, c[1], c[2], [i \in 0..(NX-1) |-> 0])]
    /\ reads = {}
    /\ integral = [s \in 0..NSeed |-> 0]
    /\ si \in 0..(NSeed-1)
    /\ lj = 0
    /\ counter = 0
    /\ seeds = <<si>>
    /\ tr = TraceEntry(linex(si), liney(si))
    /\ xy_in \in {Classify(k) : k \in 0..(NSTEPS-1)}
    /\ phi = [c \in Cells |-> 0]
    /\ newphi = [c \in Cells |-> Uninit]
    /\ wk = [t \in 0..(NThreads-1) |-> 0]
    /\ delta2 = [t \in 0..(NThreads-1) |-> 0]
    /\ mallocs = MallocRows(NoRows, {"phi", "xy_in", "nablax", "nablay"})
    /\ frees = NoRows
    /\ pc = "trace"
    /\ phi0 = phi
    /\ xy0 = xy_in

NextTrace == TraceStep \/ TraceExit

SpecTrace == InitTrace /\ [][NextTrace]_vars

\* ------------------------------------------------------------------ claims

\* C1: one call of evolve_wave leaves the status grid unchanged and leaves
\* every cell whose status is not 1 with the value it held before the call.
C1_OnlyStatus1Changes ==
    (pc \in {"compute", "evolved"}) =>
        /\ xy_in = xy0
        /\ \A c \in Cells : xy0[c] # 1 => phi[c] = phi0[c]

C1_Witness ==
    /\ pc = "evolved"
    /\ \E c \in Cells : xy0[c] = 0
    /\ \E c \in Cells : xy0[c] >= 2
    /\ \E c \in Cells : xy0[c] = 1 /\ phi[c] # phi0[c]

\* C2: while the workers compute, nobody writes the current field phi.
C2_NoWriteWhileComputing ==
    [][(pc = "compute" /\ pc' = "compute") => phi' = phi]_vars

Max2(a, b) == IF a >= b THEN a ELSE b

Min2(a, b) == IF a <= b THEN a ELSE b

\* the previous values of cell (i, j) and of its four edge-clamped neighbours
Nbhd0(i, j) ==
    {phi0[<<i, j>>], phi0[<<Max2(i - 1, 0), j>>], phi0[<<Min2(i + 1, NX - 1), j>>],
     phi0[<<i, Max2(j - 1, 0)>>], phi0[<<i, Min2(j + 1, NY - 1)>>]}

\* C4: Dirichlet, no drift, 0 <= intstep <= 1/4: after the step every
\* status-1 cell lies between the minimum and the maximum of the previous
\* values of itself and of its four edge-clamped neighbours.
C4_MaxPrinciple ==
    (pc = "evolved" /\ B_COND = BC_DIRICHLET /\ SPEED = 0 /\ 4 * intstep <= IntDen) =>
        \A c \in Cells : xy_in[c] = 1 =>
            /\ \E v \in Nbhd0(c[1], c[2]) : phi[c] <= v
            /\ \E v \in Nbhd0(c[1], c[2]) : phi[c] >= v

\* C5: with FLOOR = 1, after a step every status-1 cell is in [-VMAX, VMAX].
C5_Clamped ==
    (pc = "evolved" /\ FLOOR = 1) =>
        \A c \in Cells : xy_in[c] = 1 => (phi[c] <= VMAX /\ phi[c] >= 0 - VMAX)

\* C3: after initialisation, whatever reclassifications and integration
\* steps follow, every cell of status s >= 2 holds T_IN * 0.75^(s-2).
C3_GradedCellsPrescribed ==
    (SCALE = 0 /\ pc \notin {"start", "gauss"}) =>
        \A c \in Cells : xy_in[c] >= 2 => phi[c] = Pow75(T_IN, xy_in[c] - 2)

RECURSIVE Repeat(_, _)
Repeat(x, n) == IF n = 0 THEN <<>> ELSE <<x>> \o Repeat(x, n - 1)

IsPrefix(a, b) == Len(a) <= Len(b) /\ \A k \in 1..Len(a) : a[k] = b[k]

Normalise == IF SCALE = 1 THEN <<"normalise">> ELSE <<>>

\* the order of one loop iteration as the data flow of the design states it
ClaimedOrder == <<"julia">> \o Repeat("evolve", NVID) \o Normalise \o <<"draw">>

\* the order of one loop iteration in animation()
CodeOrder == Normalise \o <<"draw">> \o Repeat("evolve", NVID) \o <<"julia">>

InCells == {c \in Cells : xy_in[c] # 0}

\* C6: compute_variance is the sum of the squares over all cells of status
\* # 0, rows and columns 0 included, divided by their number (1 when there
\* are none), and renormalise_field divides every such cell by sqrt(variance).
C6_NormalizerCoversAll ==
    /\ (pc \in {"renorm", "renormed"}) =>
            variance = SumSq(phi0, InCells)
                          \div (IF InCells = {} THEN 1 ELSE Cardinality(InCells))
    /\ (pc = "renormed") =>
            \A c \in InCells : phi[c] = DivStdv(phi0[c], Sqrt(variance))

\* C7: compute_gradient reads phi only at indices inside the grid, and the
\* gradient of a field that is constant in space is zero at every cell.
C7_GradientInBounds ==
    (pc # "gradient") =>
        /\ reads \subseteq Cells
        /\ (phi \in ConstFields) => \A c \in Cells : nablax[c] = 0 /\ nablay[c] = 0

\* C8: a call of draw_wave traces N_FIELD_LINES + 1 field lines, the first
\* from the sample of angle zero, with seed indices that never decrease.
C8_LineCount ==
    /\ (pc = "drawn") => (Len(seeds) = N_FIELD_LINES + 1 /\ counter = N_FIELD_LINES)
    /\ (seeds # <<>>) => seeds[1] = 0
    /\ \A k \in 1..(Len(seeds) - 1) : seeds[k] <= seeds[k + 1]

C8_Witness ==
    /\ pc = "drawn"
    /\ \A c \in Cells : nablax[c] = 0 /\ nablay[c] = 0
    /\ Len(seeds) = N_FIELD_LINES + 1
    /\ seeds[1] = 0

\* the trace is in a cell where it has to stop
StopCell == LET c == ClampedCell(tr.x1, tr.y1) IN (Norm2(c) <= MinNorm2) \/ (xy_in[c] = 0)

\* C9: a field-line trace runs at most nsteps iterations and emits at most
\* nsteps + 1 vertices; an iteration leaves cont = 0 exactly when the squared
\* gradient norm of its cell is at or below the threshold or the cell has
\* status 0; on a gradient that is near zero everywhere the trace ends after
\* one iteration, at the seed.
C9_TraceTerminates ==
    /\ [](/\ tr.i <= NTrace
          /\ tr.verts <= NTrace + 1
          /\ (tr.cont = 0 /\ pc = "trace") => tr.i >= 1
          /\ (pc = "traced" /\ \A c \in Cells : Norm2(c) <= MinNorm2) =>
                (tr.i = 1 /\ tr.x1 = tr.x0 /\ tr.y1 = tr.y0))
    /\ [][(pc = "trace" /\ tr'.i = tr.i + 1) =>
                (tr'.cont = IF StopCell THEN 0 ELSE 1)]_vars

C9_Witness ==
    /\ pc = "traced"
    /\ tr.i >= 2
    /\ tr.i < NTrace
    /\ tr.cont = 0
    /\ tr.x1 # tr.x0

\* C11: no step of evolve_wave allocates a buffer, and when animation() has
\* returned every row allocated during the run (of phi, xy_in, newphi, nablax
\* and nablay) has been freed exactly once
C11_BuffersOnceAndFreed ==
    /\ [](pc = "done" => \A b \in Buffers : frees[b] = mallocs[b])
    /\ [][pc = "evolve" => mallocs' = mallocs]_vars

\* cells that are on none of the four border rows and columns
Bulk(c) == (c[1] > 0) /\ (c[1] < NX - 1) /\ (c[2] > 0) /\ (c[2] < NY - 1)

\* the cells one step inward of a border cell c
Inward(c) ==
    {n \in Cells :
        \/ (c[1] = NX - 1) /\ (n = <<c[1] - 1, c[2]>>)
        \/ (c[2] = NY - 1) /\ (n = <<c[1], c[2] - 1>>)
        \/ (c[1] = 0) /\ (n = <<1, c[2]>>)
        \/ (c[2] = 0) /\ (n = <<c[1], 1>>)}

\* the standard five-point Laplacian of the field f at a bulk cell c
Laplacian(f, c) ==
    f[<<c[1] + 1, c[2]>>] + f[<<c[1] - 1, c[2]>>] + f[<<c[1], c[2] + 1>>]
        + f[<<c[1], c[2] - 1>>] - 4 * f[c]

\* after a step under the absorbing policy, a status-1 bulk cell holds the
\* Laplacian update of the previous field
C12_BulkLaplacian ==
    (pc = "evolved" /\ B_COND = BC_ABSORBING) =>
        \A c \in Cells : (xy0[c] = 1 /\ Bulk(c)) =>
            phi[c] = phi0[c] + Times(intstep, Laplacian(phi0, c))

\* after a step under the absorbing policy, a status-1 border cell has relaxed
\* toward one inward neighbour with the step intstep1
C12_BorderRelaxes ==
    (pc = "evolved" /\ B_COND = BC_ABSORBING) =>
        \A c \in Cells : (xy0[c] = 1 /\ ~Bulk(c)) =>
            \E n \in Inward(c) :
                phi[c] = phi0[c] - Times(Intstep1, phi0[c] - phi0[n])

\* C12: under the absorbing policy every status-1 bulk cell is updated with
\* the standard Laplacian of the previous field, and every status-1 border
\* cell by the relaxation toward its inward neighbour
C12_AbsorbingRules == C12_BulkLaplacian /\ C12_BorderRelaxes

\* C13: every seed index passed to draw_field_line through linex[i], liney[i]
\* is below N_FIELD_LINES*FIELD_LINE_FACTOR, the length of the seed arrays
\* and of the written part of integral
C13_SeedIndexInBounds == \A k \in 1..Len(seeds) : seeds[k] < NSeed

\* C14: once init_gaussian has run, whatever reclassifications and
\* integration steps follow, every cell of status 0 holds T_OUT
C14_OutsideHoldsTOut ==
    (pc \notin {"start", "gauss"}) =>
        \A c \in Cells : xy_in[c] = 0 => phi[c] = T_OUT

====
